---- MODULE Spec2Model ----
(***************************************************************************)
(* Storage layer of AniverseChat (server/storage.ts): the in-memory        *)
(* MemoryStorage and the relational DatabaseStorage behind IStorage.       *)
(***************************************************************************)
EXTENDS Integers, Sequences, FiniteSets, TLC

\* ------------------------------------------------------------------ bounds
\* Largest value the millisecond clock takes in a run.
MaxTime == 2
\* Most createChatSession calls a store answers in a run.
MaxSessions == 2
\* Most createMessage calls a store answers in a run.
MaxMessages == 2
\* Most create calls of both kinds MemoryStorage answers in a run where the
\* reads are called as well.
MaxRecords == 3

\* ------------------------------------------------------------------ inputs
UserIds == {"u1", "u2"}
\* The requests that can be in flight against the database at once.
Callers == {"c1", "c2"}
Profiles == {"p1", "p2"}
\* Suffixes Math.random().toString(36).substr(2, 9) can produce: each call
\* draws one, and two calls may draw the same or different ones.
Rands == {"a", "b"}
Times == 1..MaxTime

\* `session_${Date.now()}_${suffix}` and `msg_${Date.now()}_${suffix}`.
SessionId(t, r) == <<"session", t, r>>
MessageId(t, r) == <<"msg", t, r>>
SessionIds == {SessionId(t, r) : t \in Times, r \in Rands}
\* A session id no createChatSession returns: the clock never reads 0.
NoSuchSession == SessionId(0, "a")
MessageIds == {MessageId(t, r) : t \in Times, r \in Rands}

VARIABLES
  clock,              \* the last value the system clock returned
  users,              \* MemoryStorage.users
  chatSessions,       \* MemoryStorage.chatSessions
  messages,           \* MemoryStorage.messages
  sessionsByUser,     \* MemoryStorage.sessionsByUser
  messagesBySession,  \* MemoryStorage.messagesBySession
  memSeq,             \* history: how many createChatSession and createMessage
                      \* calls MemoryStorage has answered
  lastMessageAt,      \* history: per stored session, the timestamp of the last
                      \* message created in it (0: none yet)
  dbUsers,            \* the users table behind DatabaseStorage
  dbSessions,         \* the chat_sessions table
  dbMessages,         \* the messages table
  dbSeq,              \* how many session and message ids the database generated
  calls,              \* the DatabaseStorage call each caller has in flight
  lastOp,             \* the call that completed last, with what it returned
  mirror              \* history: when each call is made on both stores, which
                      \* ids of the two stand for the same record, the call
                      \* under way and what DatabaseStorage returned for it

memVars == <<users, chatSessions, messages, sessionsByUser, messagesBySession>>
memState == <<users, chatSessions, messages, sessionsByUser, messagesBySession,
              lastMessageAt, memSeq>>
dbVars == <<dbUsers, dbSessions, dbMessages, dbSeq, calls>>
vars == <<clock, users, chatSessions, messages, sessionsByUser,
          messagesBySession, lastMessageAt, memSeq, dbUsers, dbSessions, dbMessages,
          dbSeq, calls, lastOp, mirror>>

\* ------------------------------------------------------------------ Map<K, V>
EmptyMap == [k \in {} |-> TRUE]
MapHas(m, k) == k \in DOMAIN m
MapGetOr(m, k, d) == IF k \in DOMAIN m THEN m[k] ELSE d
MapSet(m, k, v) == [x \in DOMAIN m \cup {k} |-> IF x = k THEN v ELSE m[x]]
MapDelete(m, k) == [x \in DOMAIN m \ {k} |-> m[x]]

\* A read of the clock (Date.now(), new Date()): never before the last read.
ClockReads(c) == {t \in Times : c <= t /\ t <= c + 1}

\* Array.prototype.indexOf: the first position of x, 0 when absent (JS: -1).
IndexOf(s, x) ==
  IF \E i \in 1..Len(s) : s[i] = x
  THEN CHOOSE i \in 1..Len(s) : s[i] = x /\ \A j \in 1..(i - 1) : s[j] # x
  ELSE 0

\* Array.prototype.splice(index, 1).
Splice1(s, i) == SubSeq(s, 1, i - 1) \o SubSeq(s, i + 1, Len(s))

\* ids.map(id => map.get(id)).filter(x => x !== undefined)
RECURSIVE Resolve(_, _)
Resolve(ids, m) ==
  IF ids = <<>> THEN <<>>
  ELSE (IF Head(ids) \in DOMAIN m THEN <<m[Head(ids)]>> ELSE <<>>)
       \o Resolve(Tail(ids), m)

\* Array.prototype.sort with a numeric comparator is stable: x goes after every
\* element whose key is not greater.
RECURSIVE SortInsert(_, _)
SortInsert(sorted, x) ==
  IF sorted = <<>> THEN <<x>>
  ELSE IF Head(sorted).k <= x.k
       THEN <<Head(sorted)>> \o SortInsert(Tail(sorted), x)
       ELSE <<x>> \o sorted

RECURSIVE StableSort(_)
StableSort(s) ==
  IF s = <<>> THEN <<>>
  ELSE SortInsert(StableSort(SubSeq(s, 1, Len(s) - 1)), s[Len(s)])

Values(s) == [i \in 1..Len(s) |-> s[i].v]

\* MemoryStorage has answered fewer than MaxRecords create calls.
HasRoom == memSeq.session + memSeq.message < MaxRecords

\* ------------------------------------------------------------------ MemoryStorage
Undefined == [undefined |-> TRUE]

\* What is recorded of a completed call: the operation, the id it was given or
\* generated (upsertUser: its input), whether a record with that id was stored
\* before, what it returned.
Completed(op, key, hit, ret) == [op |-> op, key |-> key, hit |-> hit, ret |-> ret]

getUser(id) == MapGetOr(users, id, Undefined)

upsertUser(userData) ==
  \E now \in ClockReads(clock) :
    LET user == [id |-> userData.id,
                 profile |-> userData.profile,
                 createdAt |-> IF MapHas(users, userData.id)
                               THEN users[userData.id].createdAt ELSE now,
                 updatedAt |-> now]
    IN /\ clock' = now
       /\ users' = MapSet(users, userData.id, user)
       /\ lastOp' = Completed("upsertUser", userData, MapHas(users, userData.id),
                       user)
       /\ UNCHANGED <<chatSessions, messages, sessionsByUser, messagesBySession,
                      lastMessageAt, memSeq>>

createChatSession(insertSession) ==
  /\ memSeq.session < MaxSessions
  /\ \E t \in ClockReads(clock), r \in Rands :
       \E now \in ClockReads(t) :
         LET id == SessionId(t, r)
             session == [id |-> id, userId |-> insertSession.userId,
                         createdAt |-> now, updatedAt |-> now]
             userSessions == MapGetOr(sessionsByUser, insertSession.userId, <<>>)
         IN /\ clock' = now
            /\ chatSessions' = MapSet(chatSessions, id, session)
            /\ sessionsByUser' = MapSet(sessionsByUser, insertSession.userId,
                                        Append(userSessions, id))
            /\ lastOp' = Completed("createChatSession", id, MapHas(chatSessions, id),
                       session)
            /\ lastMessageAt' = IF MapHas(chatSessions, id) THEN lastMessageAt
                                ELSE MapSet(lastMessageAt, id, 0)
            /\ memSeq' = [memSeq EXCEPT !.session = @ + 1]
            /\ UNCHANGED <<users, messages, messagesBySession>>

getChatSession(id) == MapGetOr(chatSessions, id, Undefined)

getAllChatSessions(userId) ==
  LET sessionIds == MapGetOr(sessionsByUser, userId, <<>>)
      found == Resolve(sessionIds, chatSessions)
  IN Values(StableSort([i \in 1..Len(found) |->
                          [k |-> 0 - found[i].updatedAt, v |-> found[i]]]))

createMessage(insertMessage) ==
  /\ memSeq.message < MaxMessages
  /\ \E t \in ClockReads(clock), r \in Rands :
       \E now \in ClockReads(t) :
         LET id == MessageId(t, r)
             sid == insertMessage.sessionId
             message == [id |-> id, sessionId |-> sid, timestamp |-> now]
             sessionMessages == MapGetOr(messagesBySession, sid, <<>>)
         IN /\ clock' = now
            /\ messages' = MapSet(messages, id, message)
            /\ messagesBySession' = MapSet(messagesBySession, sid,
                                           Append(sessionMessages, id))
            /\ chatSessions' =
                 IF MapHas(chatSessions, sid)
                 THEN MapSet(chatSessions, sid,
                             [chatSessions[sid] EXCEPT !.updatedAt = now])
                 ELSE chatSessions
            /\ lastOp' = Completed("createMessage", id, MapHas(messages, id),
                       message)
            /\ lastMessageAt' =
                 IF MapHas(chatSessions, sid)
                 THEN MapSet(lastMessageAt, sid, message.timestamp)
                 ELSE lastMessageAt
            /\ memSeq' = [memSeq EXCEPT !.message = @ + 1]
            /\ UNCHANGED <<users, sessionsByUser>>

getMessagesBySessionId(sessionId) ==
  LET messageIds == MapGetOr(messagesBySession, sessionId, <<>>)
      found == Resolve(messageIds, messages)
  IN Values(StableSort([i \in 1..Len(found) |->
                          [k |-> found[i].timestamp, v |-> found[i]]]))

deleteMessage(id) ==
  /\ IF MapHas(messages, id)
     THEN LET message == messages[id]
              sessionMessages == MapGetOr(messagesBySession, message.sessionId, <<>>)
              index == IndexOf(sessionMessages, id)
          IN /\ messages' = MapDelete(messages, id)
             /\ messagesBySession' =
                  IF index > 0
                  THEN MapSet(messagesBySession, message.sessionId,
                              Splice1(sessionMessages, index))
                  ELSE messagesBySession
     ELSE UNCHANGED <<messages, messagesBySession>>
  /\ lastOp' = Completed("deleteMessage", id, MapHas(messages, id),
                       Undefined)
  /\ UNCHANGED <<clock, users, chatSessions, sessionsByUser, lastMessageAt,
                 memSeq>>

RECURSIVE DeleteAll(_, _)
DeleteAll(m, ids) ==
  IF ids = <<>> THEN m ELSE DeleteAll(MapDelete(m, Head(ids)), Tail(ids))

\* deleteChatSession that removes the session and leaves its messages.
deleteChatSession_NoCascade(id) ==
  /\ IF MapHas(chatSessions, id)
     THEN LET session == chatSessions[id]
              userSessions == MapGetOr(sessionsByUser, session.userId, <<>>)
              index == IndexOf(userSessions, id)
          IN /\ chatSessions' = MapDelete(chatSessions, id)
             /\ sessionsByUser' =
                  IF index > 0
                  THEN MapSet(sessionsByUser, session.userId,
                              Splice1(userSessions, index))
                  ELSE sessionsByUser
             /\ UNCHANGED <<messages, messagesBySession>>
     ELSE UNCHANGED <<chatSessions, messages, sessionsByUser, messagesBySession>>
  /\ lastMessageAt' = MapDelete(lastMessageAt, id)
  /\ memSeq' = memSeq
  /\ lastOp' = Completed("deleteChatSession", id, MapHas(chatSessions, id),
                       IF MapHas(chatSessions, id)
                       THEN [cascaded |-> Len(MapGetOr(messagesBySession, id, <<>>))]
                       ELSE Undefined)
  /\ UNCHANGED <<clock, users>>

\* deleteChatSession that deletes the messages listed under the id whether or
\* not the session is stored.
deleteChatSession_NoPresenceCheck(id) ==
  /\ LET messageIds == MapGetOr(messagesBySession, id, <<>>)
     IN /\ messages' = DeleteAll(messages, messageIds)
        /\ messagesBySession' = MapDelete(messagesBySession, id)
  /\ IF MapHas(chatSessions, id)
     THEN LET session == chatSessions[id]
              userSessions == MapGetOr(sessionsByUser, session.userId, <<>>)
              index == IndexOf(userSessions, id)
          IN /\ chatSessions' = MapDelete(chatSessions, id)
             /\ sessionsByUser' =
                  IF index > 0
                  THEN MapSet(sessionsByUser, session.userId,
                              Splice1(userSessions, index))
                  ELSE sessionsByUser
     ELSE UNCHANGED <<chatSessions, sessionsByUser>>
  /\ lastMessageAt' = MapDelete(lastMessageAt, id)
  /\ memSeq' = memSeq
  /\ lastOp' = Completed("deleteChatSession", id, MapHas(chatSessions, id),
                       IF MapHas(chatSessions, id)
                       THEN [cascaded |-> Len(MapGetOr(messagesBySession, id, <<>>))]
                       ELSE Undefined)
  /\ UNCHANGED <<clock, users>>

\* deleteChatSession that drops the session's index list and leaves the
\* messages it lists in the message map.
deleteChatSession_DropsIndexOnly(id) ==
  /\ IF MapHas(chatSessions, id)
     THEN LET session == chatSessions[id]
              userSessions == MapGetOr(sessionsByUser, session.userId, <<>>)
              index == IndexOf(userSessions, id)
          IN /\ messages' = messages
             /\ messagesBySession' = MapDelete(messagesBySession, id)
             /\ chatSessions' = MapDelete(chatSessions, id)
             /\ sessionsByUser' =
                  IF index > 0
                  THEN MapSet(sessionsByUser, session.userId,
                              Splice1(userSessions, index))
                  ELSE sessionsByUser
     ELSE UNCHANGED <<chatSessions, messages, sessionsByUser, messagesBySession>>
  /\ lastMessageAt' = MapDelete(lastMessageAt, id)
  /\ memSeq' = memSeq
  /\ lastOp' = Completed("deleteChatSession", id, MapHas(chatSessions, id),
                       IF MapHas(chatSessions, id)
                       THEN [cascaded |-> Len(MapGetOr(messagesBySession, id, <<>>))]
                       ELSE Undefined)
  /\ UNCHANGED <<clock, users>>

deleteChatSession(id) ==
  /\ IF MapHas(chatSessions, id)
     THEN LET session == chatSessions[id]
              messageIds == MapGetOr(messagesBySession, id, <<>>)
              userSessions == MapGetOr(sessionsByUser, session.userId, <<>>)
              index == IndexOf(userSessions, id)
          IN /\ messages' = DeleteAll(messages, messageIds)
             /\ messagesBySession' = MapDelete(messagesBySession, id)
             /\ chatSessions' = MapDelete(chatSessions, id)
             /\ sessionsByUser' =
                  IF index > 0
                  THEN MapSet(sessionsByUser, session.userId,
                              Splice1(userSessions, index))
                  ELSE sessionsByUser
     ELSE UNCHANGED <<chatSessions, messages, sessionsByUser, messagesBySession>>
  /\ lastMessageAt' = MapDelete(lastMessageAt, id)
  /\ memSeq' = memSeq
  /\ lastOp' = Completed("deleteChatSession", id, MapHas(chatSessions, id),
                       IF MapHas(chatSessions, id)
                       THEN [cascaded |-> Len(MapGetOr(messagesBySession, id, <<>>))]
                       ELSE Undefined)
  /\ UNCHANGED <<clock, users>>

\* ------------------------------------------------------------------ the database
\* Ids the database generates for new rows: never reused.
DbSessionId(n) == <<"session", n>>
DbMessageId(n) == <<"msg", n>>
DbSessionIds == {DbSessionId(n) : n \in 1..MaxSessions}
DbMessageIds == {DbMessageId(n) : n \in 1..MaxMessages}

\* A rejected promise: the collaborator's error, passed on unchanged.
Failure(why) == [error |-> why]
IsFailure(r) == r \in {Failure("foreign key"), Failure("connection")}

\* WHERE session_id = sessionId
MessagesOf(rows, sessionId) == {m \in DOMAIN rows : rows[m].sessionId = sessionId}

\* The foreign keys of the schema, which the database enforces on every
\* statement: chat_sessions.user_id REFERENCES users.id, and
\* messages.session_id REFERENCES chat_sessions.id.
UserRowExists(userId) == MapHas(dbUsers, userId)
SessionRowExists(sessionId) == MapHas(dbSessions, sessionId)
\* messages.session_id references chat_sessions: the database refuses the
\* delete of a session row while a message row names it.
SessionRowReferenced(id) == MessagesOf(dbMessages, id) # {}

\* DELETE FROM messages WHERE session_id = id
DeleteWhereSession(rows, id) == [m \in DOMAIN rows \ MessagesOf(rows, id) |-> rows[m]]

Idle == [op |-> "idle"]
Start(c, call) == calls' = [calls EXCEPT ![c] = call]
Finish(c) == calls' = [calls EXCEPT ![c] = Idle]

\* ------------------------------------------------------------------ DatabaseStorage
DatabaseStorage_getUser(id) == MapGetOr(dbUsers, id, Undefined)

\* One INSERT .. ON CONFLICT (id) DO UPDATE .. RETURNING statement, awaited:
\* the call takes new Date() for the SET clause when it builds the statement,
\* and the database applies the statement later, after any statements of other
\* calls that reach it first.
DatabaseStorage_upsertUser(c, userData) ==
  \/ /\ calls[c] = Idle
     /\ \E stamp \in ClockReads(clock) :
          /\ clock' = stamp
          /\ Start(c, [op |-> "upsertUser", userData |-> userData,
                       stamp |-> stamp])
     /\ UNCHANGED <<dbUsers, dbSessions, dbMessages, dbSeq, lastOp>>
  \/ /\ calls[c].op = "upsertUser"
     /\ calls[c].userData = userData
     /\ \E at \in ClockReads(clock) :
          LET user == IF MapHas(dbUsers, userData.id)
                      THEN [dbUsers[userData.id]
                              EXCEPT !.profile = userData.profile,
                                     !.updatedAt = calls[c].stamp]
                      ELSE [id |-> userData.id, profile |-> userData.profile,
                            createdAt |-> at, updatedAt |-> at]
          IN /\ clock' = at
             /\ dbUsers' = MapSet(dbUsers, userData.id, user)
             /\ lastOp' = Completed("DatabaseStorage.upsertUser", userData,
                                    MapHas(dbUsers, userData.id), user)
     /\ Finish(c)
     /\ UNCHANGED <<dbSessions, dbMessages, dbSeq>>

DatabaseStorage_createChatSession(insertSession) ==
  /\ dbSeq.session < MaxSessions
  /\ \E at \in ClockReads(clock) :
       LET id == DbSessionId(dbSeq.session + 1)
           session == [id |-> id, userId |-> insertSession.userId,
                       createdAt |-> at, updatedAt |-> at]
       IN /\ clock' = at
          /\ IF UserRowExists(insertSession.userId)
             THEN /\ dbSessions' = MapSet(dbSessions, id, session)
                  /\ dbSeq' = [dbSeq EXCEPT !.session = @ + 1]
                  /\ lastOp' = Completed("DatabaseStorage.createChatSession", id,
                                         FALSE, session)
             ELSE /\ UNCHANGED <<dbSessions, dbSeq>>
                  /\ lastOp' = Completed("DatabaseStorage.createChatSession", id,
                                         FALSE, Failure("foreign key"))
          /\ UNCHANGED <<dbUsers, dbMessages, calls>>

DatabaseStorage_getChatSession(id) == MapGetOr(dbSessions, id, Undefined)

\* The two statements of createMessage, each awaited: the INSERT, then the
\* UPDATE carrying the new Date() taken when the INSERT has returned.
DatabaseStorage_createMessage(c, insertMessage) ==
  \/ /\ calls[c] = Idle
     /\ dbSeq.message < MaxMessages
     /\ \E at \in ClockReads(clock) :
          LET id == DbMessageId(dbSeq.message + 1)
              message == [id |-> id, sessionId |-> insertMessage.sessionId,
                          timestamp |-> at]
          IN /\ clock' = at
             /\ IF SessionRowExists(insertMessage.sessionId)
                THEN /\ dbMessages' = MapSet(dbMessages, id, message)
                     /\ dbSeq' = [dbSeq EXCEPT !.message = @ + 1]
                     /\ Start(c, [op |-> "createMessage", pc |-> "inserted",
                                  message |-> message, stamp |-> 0])
                     /\ UNCHANGED lastOp
                ELSE /\ UNCHANGED <<dbMessages, dbSeq, calls>>
                     /\ lastOp' = Completed("DatabaseStorage.createMessage", id,
                                            FALSE, Failure("foreign key"))
             /\ UNCHANGED <<dbUsers, dbSessions>>
  \/ /\ calls[c].op = "createMessage"
     /\ calls[c].pc = "inserted"
     /\ calls[c].message.sessionId = insertMessage.sessionId
     /\ \E now \in ClockReads(clock) :
          /\ clock' = now
          /\ calls' = [calls EXCEPT ![c].pc = "updating", ![c].stamp = now]
     /\ UNCHANGED <<dbUsers, dbSessions, dbMessages, dbSeq, lastOp>>
  \/ /\ calls[c].op = "createMessage"
     /\ calls[c].pc = "updating"
     /\ calls[c].message.sessionId = insertMessage.sessionId
     /\ dbSessions' =
          IF MapHas(dbSessions, insertMessage.sessionId)
          THEN MapSet(dbSessions, insertMessage.sessionId,
                      [dbSessions[insertMessage.sessionId]
                         EXCEPT !.updatedAt = calls[c].stamp])
          ELSE dbSessions
     /\ calls' = [calls EXCEPT ![c].pc = "updated"]
     /\ UNCHANGED <<clock, dbUsers, dbMessages, dbSeq, lastOp>>
  \/ /\ calls[c].op = "createMessage"
     /\ calls[c].pc = "updated"
     /\ calls[c].message.sessionId = insertMessage.sessionId
     /\ Finish(c)
     /\ lastOp' = Completed("DatabaseStorage.createMessage", calls[c].message.id,
                            FALSE, calls[c].message)
     /\ UNCHANGED <<clock, dbUsers, dbSessions, dbMessages, dbSeq>>

DatabaseStorage_deleteMessage(id) ==
  /\ dbMessages' = MapDelete(dbMessages, id)
  /\ lastOp' = Completed("DatabaseStorage.deleteMessage", id, MapHas(dbMessages, id),
                         Undefined)
  /\ UNCHANGED <<clock, dbUsers, dbSessions, dbSeq, calls>>

\* deleteChatSession that deletes the session row first and its messages after.
DatabaseStorage_deleteChatSession_SessionFirst(c, id) ==
  \/ /\ calls[c] = Idle
     /\ \/ /\ ~SessionRowReferenced(id)
           /\ dbSessions' = MapDelete(dbSessions, id)
           /\ Start(c, [op |-> "deleteChatSession", pc |-> "deleteSession", id |-> id])
           /\ UNCHANGED <<dbMessages, lastOp>>
        \/ /\ UNCHANGED <<dbSessions, dbMessages, calls>>
           /\ lastOp' = Completed("DatabaseStorage.deleteChatSession", id,
                                  MapHas(dbSessions, id),
                                  IF ~SessionRowReferenced(id)
                                  THEN Failure("connection")
                                  ELSE Failure("foreign key"))
     /\ UNCHANGED <<clock, dbUsers, dbSeq>>
  \/ /\ calls[c] = [op |-> "deleteChatSession", pc |-> "deleteSession", id |-> id]
     /\ \/ /\ dbMessages' = DeleteWhereSession(dbMessages, id)
           /\ lastOp' = Completed("DatabaseStorage.deleteChatSession", id,
                                  MapHas(dbSessions, id), Undefined)
        \/ /\ UNCHANGED dbMessages
           /\ lastOp' = Completed("DatabaseStorage.deleteChatSession", id,
                                  MapHas(dbSessions, id), Failure("connection"))
     /\ Finish(c)
     /\ UNCHANGED <<clock, dbUsers, dbSessions, dbSeq>>

\* The two statements of deleteChatSession, each awaited: either may be
\* rejected by the collaborator, and the rejection ends the call.
DatabaseStorage_deleteChatSession(c, id) ==
  \/ /\ calls[c] = Idle
     /\ \/ /\ dbMessages' = DeleteWhereSession(dbMessages, id)
           /\ Start(c, [op |-> "deleteChatSession", pc |-> "deleteSession", id |-> id])
           /\ UNCHANGED lastOp
        \/ /\ UNCHANGED <<dbMessages, calls>>
           /\ lastOp' = Completed("DatabaseStorage.deleteChatSession", id,
                                  MapHas(dbSessions, id), Failure("connection"))
     /\ UNCHANGED <<clock, dbUsers, dbSessions, dbSeq>>
  \/ /\ calls[c] = [op |-> "deleteChatSession", pc |-> "deleteSession", id |-> id]
     /\ \/ /\ ~SessionRowReferenced(id)
           /\ dbSessions' = MapDelete(dbSessions, id)
           /\ lastOp' = Completed("DatabaseStorage.deleteChatSession", id,
                                  MapHas(dbSessions, id), Undefined)
        \/ /\ UNCHANGED dbSessions
           /\ lastOp' = Completed("DatabaseStorage.deleteChatSession", id,
                                  MapHas(dbSessions, id),
                                  IF ~SessionRowReferenced(id)
                                  THEN Failure("connection")
                                  ELSE Failure("foreign key"))
     /\ Finish(c)
     /\ UNCHANGED <<clock, dbUsers, dbMessages, dbSeq>>

\* ------------------------------------------------------------------ specifications
\* Ids no create of the database returns: its sequences start at 1.
NoSuchDbSession == DbSessionId(0)
NoSuchDbMessage == DbMessageId(0)
NoSuchMessage == MessageId(0, "a")
NoCall == [op |-> "none"]

\* Nothing was called on both stores yet: only the ids that are stored in
\* neither stand for each other.
NoMirror ==
  [sessions |-> (NoSuchDbSession :> NoSuchSession),
   messages |-> (NoSuchDbMessage :> NoSuchMessage),
   call |-> NoCall,
   db |-> Completed("new", "", FALSE, Undefined)]

InitMemory ==
  /\ users = EmptyMap
  /\ chatSessions = EmptyMap
  /\ messages = EmptyMap
  /\ sessionsByUser = EmptyMap
  /\ messagesBySession = EmptyMap
  /\ lastMessageAt = EmptyMap
  /\ memSeq = [session |-> 0, message |-> 0]

Init ==
  /\ clock = 1
  /\ InitMemory
  /\ dbUsers = EmptyMap
  /\ dbSessions = EmptyMap
  /\ dbMessages = EmptyMap
  /\ dbSeq = [session |-> 0, message |-> 0]
  /\ calls = [c \in Callers |-> Idle]
  /\ lastOp = Completed("new", "", FALSE, Undefined)
  /\ mirror = NoMirror

\* The chat operations of MemoryStorage, called one at a time, each with any
\* id: one that is stored, one that was deleted, one that createChatSession
\* returns later, one that is never returned.
Next ==
  \/ \E u \in UserIds : createChatSession([userId |-> u]) /\ UNCHANGED <<dbVars, mirror>>
  \/ \E s \in SessionIds \cup {NoSuchSession} :
       createMessage([sessionId |-> s]) /\ UNCHANGED <<dbVars, mirror>>
  \/ \E m \in MessageIds : deleteMessage(m) /\ UNCHANGED <<dbVars, mirror>>
  \/ \E s \in SessionIds \cup {NoSuchSession} :
       deleteChatSession(s) /\ UNCHANGED <<dbVars, mirror>>

Spec == Init /\ [][Next]_vars

\* upsertUser of either store: the calls on MemoryStorage run one at a time,
\* the statements of the callers of DatabaseStorage interleave.
NextUsers ==
  \/ \E id \in UserIds, p \in Profiles :
       upsertUser([id |-> id, profile |-> p]) /\ UNCHANGED <<dbVars, mirror>>
  \/ \E c \in Callers, id \in UserIds, p \in Profiles :
       DatabaseStorage_upsertUser(c, [id |-> id, profile |-> p])
         /\ UNCHANGED <<memState, mirror>>

SpecUsers == Init /\ [][NextUsers]_vars

\* A database that already holds the users: rows an earlier process wrote.
InitDb ==
  /\ clock = 1
  /\ InitMemory
  /\ dbUsers = [u \in UserIds |->
                  [id |-> u, profile |-> "p1", createdAt |-> 1, updatedAt |-> 1]]
  /\ dbSessions = EmptyMap
  /\ dbMessages = EmptyMap
  /\ dbSeq = [session |-> 0, message |-> 0]
  /\ calls = [c \in Callers |-> Idle]
  /\ lastOp = Completed("new", "", FALSE, Undefined)
  /\ mirror = NoMirror

\* The chat operations of DatabaseStorage: the callers' statements interleave.
NextDb ==
  \/ \E u \in UserIds \cup {"nobody"} :
       DatabaseStorage_createChatSession([userId |-> u]) /\ UNCHANGED <<memState, mirror>>
  \/ \E c \in Callers, s \in DbSessionIds :
       DatabaseStorage_createMessage(c, [sessionId |-> s]) /\ UNCHANGED <<memState, mirror>>
  \/ \E m \in DbMessageIds : DatabaseStorage_deleteMessage(m) /\ UNCHANGED <<memState, mirror>>
  \/ \E c \in Callers, s \in DbSessionIds :
       DatabaseStorage_deleteChatSession(c, s) /\ UNCHANGED <<memState, mirror>>

SpecDb == InitDb /\ [][NextDb]_vars

\* ------------------------------------------------------------------ the reads
\* A call of a read-only operation of MemoryStorage: it assigns to no field
\* and changes no stored array, and returns what the operation computes.
Read(op, key, hit, ret) ==
  /\ lastOp' = Completed(op, key, hit, ret)
  /\ UNCHANGED <<clock, memState, dbVars, mirror>>

\* A returned array.
Listing(array) == [listing |-> array]

Read_getUser(id) == Read("getUser", id, MapHas(users, id), getUser(id))

Read_getChatSession(id) ==
  Read("getChatSession", id, MapHas(chatSessions, id), getChatSession(id))

\* getAllChatSessions that sorts the stored index list itself (the || [] list
\* of an absent key is stored as well).
Read_getAllChatSessions_SortsIndex(userId) ==
  LET sorted == getAllChatSessions(userId)
  IN /\ lastOp' = Completed("getAllChatSessions", userId,
                            MapHas(sessionsByUser, userId), Listing(sorted))
     /\ sessionsByUser' = MapSet(sessionsByUser, userId,
                                 [i \in 1..Len(sorted) |-> sorted[i].id])
     /\ UNCHANGED <<clock, users, chatSessions, messages, messagesBySession,
                    lastMessageAt, memSeq, dbVars, mirror>>

Read_getAllChatSessions(userId) ==
  Read("getAllChatSessions", userId, MapHas(sessionsByUser, userId),
       Listing(getAllChatSessions(userId)))

Read_getMessagesBySessionId(sessionId) ==
  Read("getMessagesBySessionId", sessionId, MapHas(messagesBySession, sessionId),
       Listing(getMessagesBySessionId(sessionId)))

\* One user is stored: u1 was upserted at time 1.
InitReads ==
  /\ clock = 1
  /\ users = [u \in {"u1"} |->
                [id |-> u, profile |-> "p1", createdAt |-> 1, updatedAt |-> 1]]
  /\ chatSessions = EmptyMap
  /\ messages = EmptyMap
  /\ sessionsByUser = EmptyMap
  /\ messagesBySession = EmptyMap
  /\ lastMessageAt = EmptyMap
  /\ memSeq = [session |-> 0, message |-> 0]
  /\ dbUsers = EmptyMap
  /\ dbSessions = EmptyMap
  /\ dbMessages = EmptyMap
  /\ dbSeq = [session |-> 0, message |-> 0]
  /\ calls = [c \in Callers |-> Idle]
  /\ lastOp = Completed("new", "", FALSE, Undefined)
  /\ mirror = NoMirror

\* The operations of MemoryStorage, reads among them, called one at a time.
NextReads ==
  \/ \E u \in UserIds :
       HasRoom /\ createChatSession([userId |-> u]) /\ UNCHANGED <<dbVars, mirror>>
  \/ \E s \in SessionIds \cup {NoSuchSession} :
       HasRoom /\ createMessage([sessionId |-> s]) /\ UNCHANGED <<dbVars, mirror>>
  \/ \E m \in MessageIds : deleteMessage(m) /\ UNCHANGED <<dbVars, mirror>>
  \/ \E s \in SessionIds \cup {NoSuchSession} :
       deleteChatSession(s) /\ UNCHANGED <<dbVars, mirror>>
  \/ \E id \in UserIds : Read_getUser(id)
  \/ \E id \in SessionIds \cup {NoSuchSession} : Read_getChatSession(id)
  \/ \E userId \in UserIds : Read_getAllChatSessions(userId)
  \/ \E sessionId \in SessionIds \cup {NoSuchSession} :
       Read_getMessagesBySessionId(sessionId)

SpecReads == InitReads /\ [][NextReads]_vars

\* ------------------------------------------------------------------ both stores
\* The request that makes every call on both stores, one call at a time.
Requester == "c1"

\* Both stores hold the same users and nothing else.
InitBoth ==
  /\ clock = 1
  /\ users = [u \in UserIds |->
                [id |-> u, profile |-> "p1", createdAt |-> 1, updatedAt |-> 1]]
  /\ chatSessions = EmptyMap
  /\ messages = EmptyMap
  /\ sessionsByUser = EmptyMap
  /\ messagesBySession = EmptyMap
  /\ lastMessageAt = EmptyMap
  /\ memSeq = [session |-> 0, message |-> 0]
  /\ dbUsers = users
  /\ dbSessions = EmptyMap
  /\ dbMessages = EmptyMap
  /\ dbSeq = [session |-> 0, message |-> 0]
  /\ calls = [c \in Callers |-> Idle]
  /\ lastOp = Completed("new", "", FALSE, Undefined)
  /\ mirror = NoMirror

\* A call is made on DatabaseStorage first: no call is under way on either
\* store.
BeginCall(op, arg) ==
  /\ mirror.call = NoCall
  /\ calls[Requester] = Idle
  /\ mirror' = [mirror EXCEPT !.call = [op |-> op, arg |-> arg]]

\* The statements that are left of the DatabaseStorage call under way.
MidCall(op) ==
  /\ mirror.call # NoCall
  /\ mirror.call.op = op
  /\ calls[Requester] # Idle
  /\ UNCHANGED mirror

\* DatabaseStorage has returned: the same call is made on MemoryStorage, at
\* the same reading of the clock.
Replay(op) ==
  /\ mirror.call # NoCall
  /\ mirror.call.op = op
  /\ calls[Requester] = Idle

\* What the pair of calls leaves in the history: the outcome of DatabaseStorage
\* and, when both created a record, that the two new ids stand for each other.
Paired(kind) ==
  LET both == ~IsFailure(lastOp.ret) /\ kind # "none"
  IN mirror' =
       [mirror EXCEPT
          !.call = NoCall,
          !.db = lastOp,
          !.sessions = IF both /\ kind = "session"
                       THEN MapSet(@, lastOp.key, lastOp'.key) ELSE @,
          !.messages = IF both /\ kind = "message"
                       THEN MapSet(@, lastOp.key, lastOp'.key) ELSE @]

Both_createChatSession ==
  \/ \E u \in UserIds :
       /\ memSeq.session < MaxSessions
       /\ BeginCall("createChatSession", u)
       /\ DatabaseStorage_createChatSession([userId |-> u])
       /\ UNCHANGED memState
  \/ /\ Replay("createChatSession")
     /\ createChatSession([userId |-> mirror.call.arg])
     /\ clock' = clock
     /\ Paired("session")
     /\ UNCHANGED dbVars

Both_createMessage ==
  \/ \E d \in DOMAIN mirror.sessions :
       /\ memSeq.message < MaxMessages
       /\ BeginCall("createMessage", d)
       /\ DatabaseStorage_createMessage(Requester, [sessionId |-> d])
       /\ UNCHANGED memState
  \/ /\ MidCall("createMessage")
     /\ DatabaseStorage_createMessage(Requester, [sessionId |-> mirror.call.arg])
     /\ UNCHANGED memState
  \/ /\ Replay("createMessage")
     /\ createMessage([sessionId |-> mirror.sessions[mirror.call.arg]])
     /\ clock' = clock
     /\ Paired("message")
     /\ UNCHANGED dbVars

Both_deleteMessage ==
  \/ \E d \in DOMAIN mirror.messages :
       /\ BeginCall("deleteMessage", d)
       /\ DatabaseStorage_deleteMessage(d)
       /\ UNCHANGED memState
  \/ /\ Replay("deleteMessage")
     /\ deleteMessage(mirror.messages[mirror.call.arg])
     /\ Paired("none")
     /\ UNCHANGED dbVars

\* No statement is rejected for a lost connection.
Both_deleteChatSession ==
  \/ \E d \in DOMAIN mirror.sessions :
       /\ BeginCall("deleteChatSession", d)
       /\ DatabaseStorage_deleteChatSession(Requester, d)
       /\ lastOp'.ret # Failure("connection")
       /\ UNCHANGED memState
  \/ /\ MidCall("deleteChatSession")
     /\ DatabaseStorage_deleteChatSession(Requester, mirror.call.arg)
     /\ lastOp'.ret # Failure("connection")
     /\ UNCHANGED memState
  \/ /\ Replay("deleteChatSession")
     /\ deleteChatSession(mirror.sessions[mirror.call.arg])
     /\ Paired("none")
     /\ UNCHANGED dbVars

NextBoth ==
  \/ Both_createChatSession
  \/ Both_createMessage
  \/ Both_deleteMessage
  \/ Both_deleteChatSession

SpecBoth == InitBoth /\ [][NextBoth]_vars

\* ------------------------------------------------------------------ listings, as sets
RangeOf(s) == {s[i] : i \in 1..Len(s)}
NoRepeats(s) == \A i, j \in 1..Len(s) : i # j => s[i] # s[j]
AnySessionId == SessionIds \cup {NoSuchSession}

\* ------------------------------------------------------------------ C1
\* C1: right after deleteChatSession(s) of a stored session s, getChatSession(s)
\* is empty, getMessagesBySessionId(s) is the empty sequence and no user's
\* getAllChatSessions lists s.
C1_CascadeDelete ==
  (lastOp.op = "deleteChatSession" /\ lastOp.hit) =>
    /\ getChatSession(lastOp.key) = Undefined
    /\ getMessagesBySessionId(lastOp.key) = <<>>
    /\ \A u \in UserIds :
         \A i \in 1..Len(getAllChatSessions(u)) :
           getAllChatSessions(u)[i].id # lastOp.key

\* A stored session holding two messages has just been deleted.
C1_Witness ==
  /\ lastOp.op = "deleteChatSession"
  /\ lastOp.hit
  /\ lastOp.ret.cascaded = 2

\* ------------------------------------------------------------------ C2
\* C2: every stored message's sessionId is the id of a stored session.
C2_NoOrphanedMessages ==
  \A m \in DOMAIN messages : messages[m].sessionId \in DOMAIN chatSessions

\* ------------------------------------------------------------------ C3
\* C3: getMessagesBySessionId(sid) is exactly the stored messages of sid, each
\* once, by ascending timestamp, equal timestamps in creation order (the later
\* created message carries the later Date.now() in its id).
C3_MessageListing ==
  \A sid \in AnySessionId :
    LET r == getMessagesBySessionId(sid)
    IN /\ RangeOf(r) = {messages[m] : m \in {x \in DOMAIN messages :
                                                messages[x].sessionId = sid}}
       /\ NoRepeats(r)
       /\ \A i, j \in 1..Len(r) :
            i < j => /\ r[i].timestamp <= r[j].timestamp
                     /\ (r[i].timestamp = r[j].timestamp => r[i].id[2] <= r[j].id[2])

\* ------------------------------------------------------------------ C4
\* C4: getAllChatSessions(u) is exactly the stored sessions of u, each once, by
\* descending updatedAt, equal updatedAt in insertion order.
C4_SessionListing ==
  \A u \in UserIds :
    LET r == getAllChatSessions(u)
    IN /\ RangeOf(r) = {chatSessions[s] : s \in {x \in DOMAIN chatSessions :
                                                    chatSessions[x].userId = u}}
       /\ NoRepeats(r)
       /\ \A i, j \in 1..Len(r) :
            i < j => /\ r[i].updatedAt >= r[j].updatedAt
                     /\ (r[i].updatedAt = r[j].updatedAt => r[i].id[2] <= r[j].id[2])

\* ------------------------------------------------------------------ C5
\* A createMessage call of DatabaseStorage still has message m in hand.
InFlight(m) ==
  \E c \in Callers : calls[c].op = "createMessage" /\ calls[c].message.id = m

\* C5: once createMessage has returned message m of a stored session, that
\* session's updatedAt is at least m's timestamp, in MemoryStorage and in
\* DatabaseStorage.
C5_SessionNotOlderThanMessage ==
  /\ \A m \in DOMAIN messages :
       messages[m].sessionId \in DOMAIN chatSessions =>
         chatSessions[messages[m].sessionId].updatedAt >= messages[m].timestamp
  /\ \A m \in DOMAIN dbMessages :
       (~InFlight(m) /\ dbMessages[m].sessionId \in DOMAIN dbSessions) =>
         dbSessions[dbMessages[m].sessionId].updatedAt >= dbMessages[m].timestamp

\* ------------------------------------------------------------------ C6
\* C6: a stored session has updatedAt equal to the timestamp of the last message
\* created in it since the id was stored, whether or not that message was
\* deleted since, and equal to its createdAt while no message was created in it.
C6_UpdatedAtIsLastMessage ==
  \A s \in DOMAIN chatSessions :
    /\ s \in DOMAIN lastMessageAt
    /\ chatSessions[s].updatedAt =
         (IF lastMessageAt[s] = 0 THEN chatSessions[s].createdAt
          ELSE lastMessageAt[s])
    /\ (lastOp.op = "createMessage" /\ lastOp.ret.sessionId = s) =>
         chatSessions[s].updatedAt = lastOp.ret.timestamp

\* ------------------------------------------------------------------ C7
\* C7: deleteMessage / deleteChatSession of an id that is not stored leaves the
\* five maps as they were, and after either delete the id is not stored, so a
\* repeated delete changes nothing.
C7_DeleteAbsentIsNoOp ==
  [][/\ lastOp'.op = "deleteMessage" =>
          /\ lastOp'.key \notin DOMAIN messages'
          /\ lastOp'.key \notin DOMAIN messages => UNCHANGED memVars
     /\ lastOp'.op = "deleteChatSession" =>
          /\ lastOp'.key \notin DOMAIN chatSessions'
          /\ lastOp'.key \notin DOMAIN chatSessions => UNCHANGED memVars]_vars

\* deleteChatSession was called for an id that has messages but no session.
C7_Witness ==
  /\ lastOp.op = "deleteChatSession"
  /\ ~lastOp.hit
  /\ MapGetOr(messagesBySession, lastOp.key, <<>>) # <<>>
  /\ chatSessions # EmptyMap

\* ------------------------------------------------------------------ C8
\* What one upsertUser call, recorded as `call`, makes of the user map `before`:
\* the input's record is stored and returned with the input's profile and an
\* updatedAt of the time of the call (between the clock readings `from` and
\* `to`), createdAt is that time on the first upsert of the id and kept after,
\* updatedAt never decreases, an identical input changes updatedAt alone, and
\* no other user changes.
UpsertContract(before, after, call, from, to) ==
  LET id == call.key.id
  IN /\ DOMAIN after = DOMAIN before \cup {id}
     /\ \A other \in DOMAIN before \ {id} : after[other] = before[other]
     /\ call.ret = after[id]
     /\ after[id].id = id
     /\ after[id].profile = call.key.profile
     /\ from <= after[id].updatedAt /\ after[id].updatedAt <= to
     /\ IF id \in DOMAIN before
        THEN /\ call.hit
             /\ after[id].createdAt = before[id].createdAt
             /\ after[id].updatedAt >= before[id].updatedAt
             /\ before[id].profile = call.key.profile =>
                  after[id] = [before[id] EXCEPT !.updatedAt = after[id].updatedAt]
        ELSE /\ ~call.hit
             /\ after[id].createdAt = after[id].updatedAt

\* C8: every upsertUser call of MemoryStorage and every upsertUser call of
\* DatabaseStorage, when its statement is applied, keeps the contract above,
\* the time of the call being from its first reading of the clock to its return.
C8_UpsertUser ==
  [][/\ (lastOp'.op = "upsertUser" /\ calls' = calls) =>
          /\ UpsertContract(users, users', lastOp', clock, clock')
          /\ lastOp'.ret.updatedAt = clock'
     /\ \A c \in Callers :
          (calls[c].op = "upsertUser" /\ calls'[c] = Idle) =>
            UpsertContract(dbUsers, dbUsers', lastOp', calls[c].stamp, clock')]_vars

\* ------------------------------------------------------------------ C9
\* C9: a create never returns an id that is already a key of its map, so it
\* never overwrites a stored record.
C9_GeneratedIdsUnique ==
  lastOp.op \in {"createChatSession", "createMessage"} => ~lastOp.hit

\* ------------------------------------------------------------------ C10
DeletingSession(c, id) ==
  calls[c] = [op |-> "deleteChatSession", pc |-> "deleteSession", id |-> id]

\* C10: in DatabaseStorage a session row is deleted only by a deleteChatSession
\* call whose delete of the session's messages has succeeded; a rejected
\* statement changes no table, ends the call and is what the call reports; and
\* no message row names a session that is not stored.
C10_CascadeUnderFailure ==
  /\ [][/\ \A id \in DOMAIN dbSessions :
             id \notin DOMAIN dbSessions' =>
               /\ \E c \in Callers : DeletingSession(c, id) /\ calls'[c] = Idle
               /\ MessagesOf(dbMessages, id) = {}
        /\ (/\ lastOp'.op = "DatabaseStorage.deleteChatSession"
            /\ lastOp' # lastOp
            /\ IsFailure(lastOp'.ret)) =>
               /\ UNCHANGED <<dbSessions, dbMessages>>
               /\ \A c \in Callers : calls'[c] = calls[c] \/ calls'[c] = Idle
        /\ \A c \in Callers :
             (calls[c].op = "deleteChatSession" /\ calls'[c] = Idle) =>
               /\ lastOp'.op = "DatabaseStorage.deleteChatSession"
               /\ lastOp'.key = calls[c].id
               /\ IsFailure(lastOp'.ret) \/ calls[c].id \notin DOMAIN dbSessions']_vars
  /\ [](\A m \in DOMAIN dbMessages : dbMessages[m].sessionId \in DOMAIN dbSessions)

\* deleteChatSession failed between its statements: the session is stored,
\* its message is gone.
C10_Witness ==
  /\ lastOp.op = "DatabaseStorage.deleteChatSession"
  /\ lastOp.ret = Failure("connection")
  /\ lastOp.key \in DOMAIN dbSessions
  /\ dbSeq.message > 0
  /\ dbMessages = EmptyMap
  /\ \A c \in Callers : calls[c] = Idle

\* ------------------------------------------------------------------ C11
\* The pair of calls made last returned the same in both stores: both failed or
\* neither did, and a created record has the same userId or, in the two
\* stores' ids, the same sessionId.
SameOutcome(db, mem) ==
  /\ IsFailure(db.ret) <=> IsFailure(mem.ret)
  /\ (mem.op = "createChatSession" /\ ~IsFailure(db.ret)) =>
       db.ret.userId = mem.ret.userId
  /\ (mem.op = "createMessage" /\ ~IsFailure(db.ret)) =>
       /\ db.ret.sessionId \in DOMAIN mirror.sessions
       /\ mirror.sessions[db.ret.sessionId] = mem.ret.sessionId

\* getChatSession returns the same for the two ids of a session: nothing in
\* both stores, or records of the same user and timestamps.
SameSessions ==
  \A d \in DOMAIN mirror.sessions :
    LET a == DatabaseStorage_getChatSession(d)
        b == getChatSession(mirror.sessions[d])
    IN /\ (a = Undefined) <=> (b = Undefined)
       /\ a # Undefined /\ b # Undefined =>
            /\ a.userId = b.userId
            /\ a.createdAt = b.createdAt
            /\ a.updatedAt = b.updatedAt

\* The messages listed for the two ids of a session are the same messages.
SameMessages ==
  \A d \in DOMAIN mirror.sessions :
    LET listed == getMessagesBySessionId(mirror.sessions[d])
    IN {mirror.messages[m] : m \in MessagesOf(dbMessages, d)}
         = {listed[i].id : i \in 1..Len(listed)}

\* C11: whenever a call has returned from both stores, it returned the same
\* outcome in both, and the two stores hold the same sessions and list the
\* same messages for every session id either has returned or was asked for.
C11_BackendsAgree ==
  (mirror.call = NoCall /\ lastOp.op # "new") =>
    /\ SameOutcome(mirror.db, lastOp)
    /\ SameSessions
    /\ SameMessages

\* ------------------------------------------------------------------ C12
\* Every record of the map `before` but those in `gone` is in `after` as it was.
Kept(before, after, gone) ==
  \A k \in DOMAIN before \ gone : k \in DOMAIN after /\ after[k] = before[k]

\* C12: deleteMessage(id) leaves the users, the sessions and every other
\* message as they were; deleteChatSession(id) leaves the users, every other
\* session and every message whose sessionId is another session's as they were.
C12_DeletesCascadeDownOnly ==
  [][/\ lastOp'.op = "deleteMessage" =>
          /\ users' = users
          /\ chatSessions' = chatSessions
          /\ Kept(messages, messages', {lastOp'.key})
     /\ lastOp'.op = "deleteChatSession" =>
          /\ users' = users
          /\ Kept(chatSessions, chatSessions', {lastOp'.key})
          /\ Kept(messages, messages', MessagesOf(messages, lastOp'.key))]_vars

\* ------------------------------------------------------------------ C13
Listed(index, key, id) == id \in RangeOf(MapGetOr(index, key, <<>>))

\* C13: every stored session is listed in sessionsByUser under its userId and
\* every stored message is listed in messagesBySession under its sessionId.
C13_PrimaryIsIndexed ==
  /\ \A s \in DOMAIN chatSessions :
       Listed(sessionsByUser, chatSessions[s].userId, s)
  /\ \A m \in DOMAIN messages :
       Listed(messagesBySession, messages[m].sessionId, m)

\* A delete has removed a stored record, and both maps still hold records:
\* among them a message of a session that is stored and one of a session that
\* is not.
C13_Witness ==
  /\ lastOp.op \in {"deleteMessage", "deleteChatSession"}
  /\ lastOp.hit
  /\ chatSessions # EmptyMap
  /\ \E m \in DOMAIN messages : messages[m].sessionId \in DOMAIN chatSessions
  /\ \E m \in DOMAIN messages : messages[m].sessionId \notin DOMAIN chatSessions

\* ------------------------------------------------------------------ C14
\* How many entries of the lists of `index` are the id.
RECURSIVE Occurrences(_, _, _)
Occurrences(index, keys, id) ==
  IF keys = {} THEN 0
  ELSE LET k == CHOOSE x \in keys : TRUE
       IN Cardinality({i \in 1..Len(index[k]) : index[k][i] = id})
            + Occurrences(index, keys \ {k}, id)

\* C14: an id listed in sessionsByUser[u] is listed once in all the lists and
\* is a stored session of user u; an id listed in messagesBySession[s] is
\* listed once in all the lists and is a stored message of session s.
C14_IndexIsExact ==
  /\ \A u \in DOMAIN sessionsByUser :
       \A i \in 1..Len(sessionsByUser[u]) :
         LET id == sessionsByUser[u][i]
         IN /\ Occurrences(sessionsByUser, DOMAIN sessionsByUser, id) = 1
            /\ id \in DOMAIN chatSessions
            /\ chatSessions[id].userId = u
  /\ \A s \in DOMAIN messagesBySession :
       \A i \in 1..Len(messagesBySession[s]) :
         LET id == messagesBySession[s][i]
         IN /\ Occurrences(messagesBySession, DOMAIN messagesBySession, id) = 1
            /\ id \in DOMAIN messages
            /\ messages[id].sessionId = s

\* ------------------------------------------------------------------ C15
\* The sessions stored before and after a step keep their createdAt and do not
\* lose on their updatedAt.
MovesForward(before, after) ==
  \A s \in DOMAIN before \cap DOMAIN after :
    /\ after[s].createdAt = before[s].createdAt
    /\ after[s].updatedAt >= before[s].updatedAt

\* C15: in MemoryStorage and in DatabaseStorage no step, and so no call made of
\* steps, changes the createdAt of a stored session or sets its updatedAt back,
\* whichever way the statements of overlapping calls are applied.
C15_TimestampsMoveForward ==
  [][/\ MovesForward(chatSessions, chatSessions')
     /\ MovesForward(dbSessions, dbSessions')]_vars

\* ------------------------------------------------------------------ C16
\* No deleteChatSession(s) and no createMessage for s has statements left.
Finished(s) ==
  \A c \in Callers :
    /\ ~DeletingSession(c, s)
    /\ ~(calls[c].op = "createMessage" /\ calls[c].message.sessionId = s)

\* C16: when the deleteChatSession and createMessage calls for a session of
\* DatabaseStorage have all finished, however their statements interleaved,
\* and the session is not stored, no message of that session is stored.
C16_DeleteCreateRace ==
  \A s \in DbSessionIds :
    (Finished(s) /\ DatabaseStorage_getChatSession(s) = Undefined) =>
      MessagesOf(dbMessages, s) = {}

\* A createMessage inserted between the two statements of a deleteChatSession
\* of its session, which was refused the session row; both calls have
\* finished, and the session and the message are stored.
C16_Witness ==
  /\ lastOp.op = "DatabaseStorage.deleteChatSession"
  /\ lastOp.ret = Failure("foreign key")
  /\ Finished(lastOp.key)
  /\ lastOp.key \in DOMAIN dbSessions
  /\ MessagesOf(dbMessages, lastOp.key) # {}

\* ------------------------------------------------------------------ C17
\* The listing without the message of the id, the others in their order.
Without(listing, id) == SelectSeq(listing, LAMBDA x : x.id # id)

\* C17: deleteMessage(m) of a stored message m of session s turns
\* getMessagesBySessionId(s) into what it was without m, and leaves
\* getMessagesBySessionId of every other session id as it was.
C17_DeleteMessageRemovesOne ==
  [][\A m \in MessageIds, s \in AnySessionId :
       (/\ lastOp'.op = "deleteMessage"
        /\ lastOp'.key = m
        /\ m \in DOMAIN messages
        /\ messages[m].sessionId = s) =>
          /\ getMessagesBySessionId(s)' = Without(getMessagesBySessionId(s), m)
          /\ \A o \in AnySessionId \ {s} :
               getMessagesBySessionId(o)' = getMessagesBySessionId(o)]_vars

\* ------------------------------------------------------------------ C18
ReadOps == {"getUser", "getChatSession", "getAllChatSessions",
            "getMessagesBySessionId"}

\* C18: getUser, getChatSession, getAllChatSessions and getMessagesBySessionId
\* leave the five maps as they were, whether the key is stored or not, and
\* return no failure: nothing for a key that is not stored, the empty listing
\* for a key that has no index list.
C18_ReadsChangeNothing ==
  [][lastOp'.op \in ReadOps =>
       /\ UNCHANGED memVars
       /\ ~IsFailure(lastOp'.ret)
       /\ (lastOp'.op \in {"getUser", "getChatSession"} /\ ~lastOp'.hit) =>
            lastOp'.ret = Undefined
       /\ (lastOp'.op \in {"getAllChatSessions", "getMessagesBySessionId"}
           /\ ~lastOp'.hit) => lastOp'.ret = Listing(<<>>)]_vars

\* getAllChatSessions has returned two sessions of a user in another order than
\* the user's index list holds them.
C18_Witness ==
  /\ lastOp.op = "getAllChatSessions"
  /\ Len(lastOp.ret.listing) = 2
  /\ lastOp.ret.listing[1].id # lastOp.ret.listing[2].id
  /\ sessionsByUser[lastOp.key] =
       <<lastOp.ret.listing[2].id, lastOp.ret.listing[1].id>>

\* ------------------------------------------------------------------ C19
\* C19: createChatSession returns a record stamped with the time of the call
\* in createdAt and updatedAt, and under its userId getAllChatSessions lists
\* it; and every call but deleteChatSession(id) leaves a stored session id
\* with getChatSession(id) of the same id, userId and createdAt, listed in
\* getAllChatSessions of that userId.
C19_CreateGetRoundTrip ==
  [][\A id \in SessionIds, u \in UserIds :
       /\ (/\ lastOp'.op = "createChatSession"
           /\ lastOp'.key = id
           /\ lastOp'.ret.userId = u) =>
             /\ lastOp'.ret.id = id
             /\ lastOp'.ret.createdAt = clock'
             /\ lastOp'.ret.updatedAt = clock'
             /\ getChatSession(id)' = lastOp'.ret
             /\ lastOp'.ret \in RangeOf(getAllChatSessions(u))'
       /\ (/\ id \in DOMAIN chatSessions
           /\ chatSessions[id].userId = u
           /\ ~(lastOp'.op = "deleteChatSession" /\ lastOp'.key = id)) =>
             /\ getChatSession(id)' # Undefined
             /\ getChatSession(id)'.id = id
             /\ getChatSession(id)'.userId = u
             /\ getChatSession(id)'.createdAt = chatSessions[id].createdAt
             /\ getChatSession(id)' \in RangeOf(getAllChatSessions(u))']_vars

====
